---- MODULE Spec2Model ----
(***************************************************************************)
(* Scheduling core of the grid auto-clicker (src/v2/autoclicker_grid_V2.py,*)
(* with the v1 variants noted where they differ).                          *)
(*                                                                         *)
(* Time is counted in ticks of 0.05 s, the slice of sleep_interruptible.   *)
(* Computation takes no time; time passes only while the scheduling thread *)
(* is inside time.sleep.  Controller events (hotkeys, buttons) may occur   *)
(* between any two steps of the scheduling thread.                         *)
(***************************************************************************)
EXTENDS Integers, Sequences, FiniteSets, TLC

VARIABLES
    \* ---- control flags (threading.Event) and the monotonic clock
    stop_event, pause_event, now,
    \* ---- the scheduling thread: position in the code, return addresses
    pc, stack,
    \* ---- run_cycles: configuration read from state, locals and globals
    cfg, ready_at, per_position_clicks, r, c, next_start,
    session_clicks, session_cycles_added, session_pause_time,
    session_active_time, run_start_time,
    \* ---- sleep_interruptible / wait_if_paused frames, time.sleep wake-up
    si_end, si_total, seconds, wp_start, wp_step, ret, wake,
    \* ---- history: pyautogui.click calls, visits that ran to the end of
    \* ---- click_position, ticks with pause_event clear, time of stop
    nclicks, visits_completed, active_ticks, stop_at,
    \* ---- history: ticks spent inside wait_if_paused's time.sleep
    blocked_ticks,
    \* ---- App (Tk main thread): worker threads, countdown overlays, button
    worker_thread, threads, overlays, btn_start, last_session,
    \* ---- the counters as last read by App._update_dashboard under runtime_lock
    dash,
    \* ---- inputs and result of the one function a specification applies
    in_a, in_b, out

flagVars   == <<stop_event, pause_event>>
frameVars  == <<si_end, si_total, seconds, wp_start, wp_step, ret, wake>>
runVars    == <<cfg, ready_at, per_position_clicks, r, c, next_start,
                session_clicks, session_cycles_added, session_pause_time,
                session_active_time, run_start_time>>
histVars   == <<nclicks, visits_completed, active_ticks, stop_at, blocked_ticks>>
appVars    == <<worker_thread, threads, overlays, btn_start, last_session, dash>>
fnVars     == <<in_a, in_b, out>>
vars == <<stop_event, pause_event, now, pc, stack, cfg, ready_at,
          per_position_clicks, r, c, next_start, session_clicks,
          session_cycles_added, session_pause_time, session_active_time,
          run_start_time, si_end, si_total, seconds, wp_start, wp_step, ret,
          wake, nclicks, visits_completed, active_ticks, stop_at, blocked_ticks,
          worker_thread, threads, overlays, btn_start, last_session, dash,
          in_a, in_b, out>>

(***************************************************************************)
(* Bounds of the model                                                     *)
(***************************************************************************)
MaxTime == 9
MaxVisits == 5
MaxSleep == 4
MaxCount == 10
MaxN == 5
MaxThreads == 2
MaxOverlays == 2
MaxNeg == 2
MaxHold == 2

(***************************************************************************)
(* Program constants, in ticks                                             *)
(***************************************************************************)
\* sleep_interruptible(seconds, step=0.05)
SleepStep == 1
\* wait_if_paused(step=0.1)
WaitStep == 2
\* run_start_time: Optional[float] = None
NoTime == -1
\* CountdownOverlay(self, 3, on_complete, on_cancel)
CountdownSeconds == 3

Max(a, b) == IF a >= b THEN a ELSE b

\* Optional[...] fields are sets: {} is None, {v} is the value v.
None == {}
Some(v) == {v}

(***************************************************************************)
(* Run configurations (AppState.grid / timing / counters), durations in    *)
(* ticks.                                                                  *)
(***************************************************************************)
BaseCfg ==
    [rows |-> 1, cols |-> 2, cooldown_seconds |-> 3,
     always_second_click |-> FALSE, click_delay |-> 1, click_delay_jitter |-> 0,
     between_positions_delay |-> 1, between_positions_jitter |-> 0,
     start_cycles_done |-> 0, clicks_per_cycle |-> 2,
     target_cycles |-> None, pause_at_cycles |-> None,
     stop_after_minutes |-> None, pause_after_minutes |-> None]

Configs ==
    { BaseCfg,
      [BaseCfg EXCEPT !.rows = 2, !.cols = 1, !.cooldown_seconds = 2,
                      !.between_positions_delay = 0],
      [BaseCfg EXCEPT !.always_second_click = TRUE,
                      !.between_positions_jitter = 1],
      [BaseCfg EXCEPT !.cooldown_seconds = 0, !.between_positions_delay = 0,
                      !.cols = 1, !.clicks_per_cycle = 3],
      [BaseCfg EXCEPT !.target_cycles = Some(2), !.cooldown_seconds = 1,
                      !.between_positions_delay = 0, !.clicks_per_cycle = 1],
      [BaseCfg EXCEPT !.target_cycles = Some(2), !.start_cycles_done = 1,
                      !.pause_at_cycles = Some(2)],
      [BaseCfg EXCEPT !.stop_after_minutes = Some(2)],
      [BaseCfg EXCEPT !.pause_at_cycles = Some(1), !.cooldown_seconds = 1],
      [BaseCfg EXCEPT !.pause_after_minutes = Some(1),
                      !.stop_after_minutes = Some(4), !.cooldown_seconds = 2] }

\* rows = max(1, int(grid.rows)); cols = max(1, int(grid.cols))
Rows(g) == Max(1, g.rows)
Cols(g) == Max(1, g.cols)
Positions(g) == (0 .. Rows(g) - 1) \X (0 .. Cols(g) - 1)


(***************************************************************************)
(* Pure helpers of the runtime                                             *)
(***************************************************************************)
\* jittered(base, jitter): the values random.uniform can produce, in ticks
jittered(base, jitter) ==
    IF jitter <= 0
    THEN {Max(0, base)}
    ELSE {Max(0, base + d) : d \in (0 - jitter) .. jitter}

\* should_count_cycle(position_click_count, counter_cfg)
should_count_cycle_off(position_click_count, clicks_per_cycle) ==
    LET n == Max(1, clicks_per_cycle)
    IN  (position_click_count % n) = 0

should_count_cycle(position_click_count, clicks_per_cycle) ==
    LET n == Max(1, clicks_per_cycle)
    IN  ((position_click_count - 1) % n) = 0

PolicyDecisionLateTarget(k, started, elapsed, total_cycles_done) ==
    IF started = NoTime THEN "none"
    ELSE IF \E t \in k.target_cycles : total_cycles_done > t THEN "stop_target"
    ELSE IF \E m \in k.stop_after_minutes : elapsed >= m THEN "stop_time"
    ELSE IF \E p \in k.pause_at_cycles : total_cycles_done >= p THEN "pause_cycles"
    ELSE IF \E m \in k.pause_after_minutes : elapsed >= m THEN "pause_time"
    ELSE "none"

PolicyDecisionLateTime(k, started, elapsed, total_cycles_done) ==
    IF started = NoTime THEN "none"
    ELSE IF \E t \in k.target_cycles : total_cycles_done >= t THEN "stop_target"
    ELSE IF \E m \in k.stop_after_minutes : elapsed > m THEN "stop_time"
    ELSE IF \E p \in k.pause_at_cycles : total_cycles_done >= p THEN "pause_cycles"
    ELSE IF \E m \in k.pause_after_minutes : elapsed >= m THEN "pause_time"
    ELSE "none"

PolicyDecisionPauseFirst(k, started, elapsed, total_cycles_done) ==
    IF started = NoTime THEN "none"
    ELSE IF \E p \in k.pause_at_cycles : total_cycles_done >= p THEN "pause_cycles"
    ELSE IF \E m \in k.pause_after_minutes : elapsed >= m THEN "pause_time"
    ELSE IF \E t \in k.target_cycles : total_cycles_done >= t THEN "stop_target"
    ELSE IF \E m \in k.stop_after_minutes : elapsed >= m THEN "stop_time"
    ELSE "none"

PolicyDecisionSessionOnly(k, started, elapsed, total_cycles_done) ==
    LET session == total_cycles_done - k.start_cycles_done
    IN  IF started = NoTime THEN "none"
        ELSE IF \E t \in k.target_cycles : session >= t THEN "stop_target"
        ELSE IF \E m \in k.stop_after_minutes : elapsed >= m THEN "stop_time"
        ELSE IF \E p \in k.pause_at_cycles : session >= p THEN "pause_cycles"
        ELSE IF \E m \in k.pause_after_minutes : elapsed >= m THEN "pause_time"
        ELSE "none"

\* maybe_pause_or_stop: which rule fires, first match wins
PolicyDecision(k, started, elapsed, total_cycles_done) ==
    IF started = NoTime THEN "none"
    ELSE IF \E t \in k.target_cycles : total_cycles_done >= t THEN "stop_target"
    ELSE IF \E m \in k.stop_after_minutes : elapsed >= m THEN "stop_time"
    ELSE IF \E p \in k.pause_at_cycles : total_cycles_done >= p THEN "pause_cycles"
    ELSE IF \E m \in k.pause_after_minutes : elapsed >= m THEN "pause_time"
    ELSE "none"

\* end = time.monotonic() + seconds
SleepDeadline(t, secs) == t + secs

ExtendDeadlineDropped(end, pause_duration) == end

\* end += pause_duration
ExtendDeadline(end, pause_duration) == end + pause_duration

CooldownWaitShort(ready, t) == ready - t - 1

MarkVisitedNoCooldown(t, cooldown) == t

\* wait = ready_at[(r, c)] - now
CooldownWait(ready, t) == ready - t

\* ready_at[(r, c)] = time.monotonic() + float(timing.cooldown_seconds)
MarkVisited(t, cooldown) == t + cooldown

(***************************************************************************)
(* Calls and returns of the scheduling thread                              *)
(***************************************************************************)
Return ==
    /\ pc' = Head(stack)
    /\ stack' = Tail(stack)

\* wait_if_paused(step): pause_start = time.monotonic(), then its loop
CallWait(step, back) ==
    /\ pc' = "wp_loop"
    /\ stack' = <<back>> \o stack
    /\ wp_start' = now
    /\ wp_step' = step

\* sleep_interruptible(seconds): total_pause = 0.0, end = now + seconds
CallSleep(secs, back) ==
    /\ pc' = "si_loop"
    /\ stack' = <<back>> \o stack
    /\ seconds' = secs
    /\ si_end' = SleepDeadline(now, secs)
    /\ si_total' = 0

\* stop_event.set(), remembering when stop was first requested
SetStop ==
    /\ stop_event' = TRUE
    /\ stop_at' = IF stop_event THEN stop_at ELSE now

(***************************************************************************)
(* wait_if_paused                                                          *)
(***************************************************************************)
WaitLoopIgnoresStop ==
    /\ pc = "wp_loop"
    /\ IF pause_event
       THEN /\ pc' = "wp_sleep"
            /\ wake' = now + wp_step
            /\ UNCHANGED <<stack, wp_start, wp_step, ret>>
       ELSE /\ Return
            /\ ret' = IF Head(stack) = "si_after_pause" THEN now - wp_start ELSE 0
            /\ wp_start' = 0
            /\ wp_step' = 0
            /\ wake' = 0
    /\ UNCHANGED <<flagVars, now, runVars, si_end, si_total, seconds, histVars, appVars, fnVars>>

WaitLoopIgnoresPause ==
    /\ pc = "wp_loop"
    /\ Return
    /\ ret' = IF Head(stack) = "si_after_pause" THEN now - wp_start ELSE 0
    /\ wp_start' = 0
    /\ wp_step' = 0
    /\ wake' = 0
    /\ UNCHANGED <<flagVars, now, runVars, si_end, si_total, seconds, histVars, appVars, fnVars>>

\* while pause_event.is_set() and not stop_event.is_set(): time.sleep(step)
\* return time.monotonic() - pause_start  (kept only where the caller uses it)
WaitLoop ==
    /\ pc = "wp_loop"
    /\ IF pause_event /\ ~stop_event
       THEN /\ pc' = "wp_sleep"
            /\ wake' = now + wp_step
            /\ UNCHANGED <<stack, wp_start, wp_step, ret>>
       ELSE /\ Return
            /\ ret' = IF Head(stack) = "si_after_pause" THEN now - wp_start ELSE 0
            /\ wp_start' = 0
            /\ wp_step' = 0
            /\ wake' = 0
    /\ UNCHANGED <<flagVars, now, runVars, si_end, si_total, seconds, histVars, appVars, fnVars>>

\* time.sleep(step) inside wait_if_paused has elapsed
WaitSlice ==
    /\ pc = "wp_sleep"
    /\ now >= wake
    /\ pc' = "wp_loop"
    /\ UNCHANGED <<flagVars, now, stack, runVars, frameVars, histVars, appVars, fnVars>>

(***************************************************************************)
(* sleep_interruptible                                                     *)
(***************************************************************************)
SleepLoopNoStopCheck ==
    /\ pc = "si_loop"
    /\ IF now >= si_end
       THEN /\ Return
            /\ si_end' = 0
            /\ si_total' = 0
            /\ seconds' = 0
            /\ UNCHANGED <<wp_start, wp_step, wake>>
       ELSE IF pause_event
       THEN /\ CallWait(Max(SleepStep, WaitStep), "si_after_pause")
            /\ UNCHANGED <<si_end, si_total, seconds, wake>>
       ELSE /\ pc' = "si_sleep"
            /\ wake' = now + SleepStep
            /\ UNCHANGED <<stack, si_end, si_total, seconds, wp_start, wp_step>>
    /\ UNCHANGED <<flagVars, now, runVars, ret, histVars, appVars, fnVars>>

\* one pass of `while time.monotonic() < end`, up to the next blocking call
SleepLoop ==
    /\ pc = "si_loop"
    /\ IF now >= si_end \/ stop_event
       THEN /\ Return
            /\ si_end' = 0
            /\ si_total' = 0
            /\ seconds' = 0
            /\ UNCHANGED <<wp_start, wp_step, wake>>
       ELSE IF pause_event
       THEN /\ CallWait(Max(SleepStep, WaitStep), "si_after_pause")
            /\ UNCHANGED <<si_end, si_total, seconds, wake>>
       ELSE /\ pc' = "si_sleep"
            /\ wake' = now + SleepStep
            /\ UNCHANGED <<stack, si_end, si_total, seconds, wp_start, wp_step>>
    /\ UNCHANGED <<flagVars, now, runVars, ret, histVars, appVars, fnVars>>

\* time.sleep(step) inside sleep_interruptible has elapsed
SleepSlice ==
    /\ pc = "si_sleep"
    /\ now >= wake
    /\ pc' = "si_loop"
    /\ wake' = 0
    /\ UNCHANGED <<flagVars, now, stack, runVars, si_end, si_total, seconds, wp_start,
                   wp_step, ret, histVars, appVars, fnVars>>

\* total_pause += pause_duration; session_pause_time += ...; end += ...
SleepAfterPause ==
    /\ pc = "si_after_pause"
    /\ si_total' = si_total + ret
    /\ session_pause_time' = session_pause_time + ret
    /\ si_end' = ExtendDeadline(si_end, ret)
    /\ ret' = 0
    /\ pc' = "si_loop"
    /\ UNCHANGED <<flagVars, now, stack, cfg, ready_at, per_position_clicks, r, c,
                   next_start, session_clicks, session_cycles_added,
                   session_active_time, run_start_time, seconds, wp_start,
                   wp_step, wake, histVars, appVars, fnVars>>


(***************************************************************************)
(* click_position                                                          *)
(***************************************************************************)
\* if stop_event.is_set(): return  /  wait_if_paused()
ClickPositionEntry ==
    /\ pc = "cp_entry"
    /\ IF stop_event
       THEN /\ pc' = "rc_count"
            /\ UNCHANGED <<stack, wp_start, wp_step>>
       ELSE CallWait(WaitStep, "cp_click1")
    /\ UNCHANGED <<flagVars, now, runVars, si_end, si_total, seconds, ret, wake,
                   histVars, appVars, fnVars>>

\* Click #1: pyautogui.click(x, y).  The visit has run to its end once every
\* configured click has been issued.
Click1 ==
    /\ pc = "cp_click1"
    /\ nclicks' = nclicks + 1
    /\ visits_completed' = IF cfg.always_second_click
                           THEN visits_completed
                           ELSE visits_completed + 1
    /\ pc' = "cp_after_click1"
    /\ UNCHANGED <<flagVars, now, stack, runVars, frameVars,
                   active_ticks, blocked_ticks, stop_at, appVars, fnVars>>

\* if stop_event.is_set(): return; then the optional click delay, or the
\* delay between positions when no second click is configured
AfterClick1 ==
    /\ pc = "cp_after_click1"
    /\ IF stop_event
       THEN /\ pc' = "rc_count"
            /\ UNCHANGED <<stack, si_end, si_total, seconds>>
       ELSE IF cfg.always_second_click
       THEN \E interval \in jittered(cfg.click_delay, cfg.click_delay_jitter) :
                CallSleep(interval, "cp_after_delay")
       ELSE \E between \in jittered(cfg.between_positions_delay,
                                    cfg.between_positions_jitter) :
                CallSleep(between, "rc_count")
    /\ UNCHANGED <<flagVars, now, runVars, wp_start, wp_step, ret, wake,
                   histVars, appVars, fnVars>>

\* after sleep_interruptible(interval): if stop_event.is_set(): return;
\* wait_if_paused()
AfterClickDelay ==
    /\ pc = "cp_after_delay"
    /\ IF stop_event
       THEN /\ pc' = "rc_count"
            /\ UNCHANGED <<stack, wp_start, wp_step>>
       ELSE CallWait(WaitStep, "cp_click2")
    /\ UNCHANGED <<flagVars, now, runVars, si_end, si_total, seconds, ret, wake,
                   histVars, appVars, fnVars>>

\* Click #2: pyautogui.click(x, y), then the delay between positions
Click2 ==
    /\ pc = "cp_click2"
    /\ nclicks' = nclicks + 1
    /\ visits_completed' = visits_completed + 1
    /\ \E between \in jittered(cfg.between_positions_delay,
                               cfg.between_positions_jitter) :
            CallSleep(between, "rc_count")
    /\ UNCHANGED <<flagVars, now, runVars, wp_start, wp_step, ret, wake,
                   active_ticks, blocked_ticks, stop_at, appVars, fnVars>>

(***************************************************************************)
(* maybe_pause_or_stop                                                     *)
(***************************************************************************)
MaybePauseOrStop ==
    /\ pc = "rc_policy"
    /\ LET d == PolicyDecision(cfg, run_start_time, now - run_start_time,
                               cfg.start_cycles_done + session_cycles_added)
       IN  IF d \in {"stop_target", "stop_time"}
           THEN SetStop /\ UNCHANGED pause_event
           ELSE IF d \in {"pause_cycles", "pause_time"}
           THEN /\ pause_event' = TRUE
                /\ UNCHANGED <<stop_event, stop_at>>
           ELSE UNCHANGED <<stop_event, pause_event, stop_at>>
    /\ pc' = "rc_after_policy"
    /\ UNCHANGED <<now, stack, runVars, frameVars, nclicks, visits_completed,
                   active_ticks, blocked_ticks, appVars, fnVars>>


(***************************************************************************)
(* run_cycles                                                              *)
(***************************************************************************)
RunCyclesInitKeepsCounters ==
    /\ pc = "rc_init"
    /\ ready_at' = [p \in Positions(cfg) |-> 0]
    /\ per_position_clicks' = [p \in Positions(cfg) |-> 0]
    /\ session_pause_time' = 0
    /\ session_active_time' = 0
    /\ run_start_time' = now
    /\ pc' = "rc_while"
    /\ UNCHANGED <<flagVars, now, stack, cfg, r, c, next_start, session_clicks,
                   session_cycles_added, frameVars, histVars, appVars, fnVars>>

\* lines 544-572: fresh cooldown table, visit counts and session counters
RunCyclesInit ==
    /\ pc = "rc_init"
    /\ ready_at' = [p \in Positions(cfg) |-> 0]
    /\ per_position_clicks' = [p \in Positions(cfg) |-> 0]
    /\ session_clicks' = 0
    /\ session_cycles_added' = 0
    /\ session_pause_time' = 0
    /\ session_active_time' = 0
    /\ run_start_time' = now
    /\ pc' = "rc_while"
    /\ UNCHANGED <<flagVars, now, stack, cfg, r, c, next_start, frameVars,
                   histVars, appVars, fnVars>>

RunCyclesWhileNoStopCheck ==
    /\ pc = "rc_while"
    /\ CallWait(WaitStep, "rc_cycle")
    /\ UNCHANGED <<flagVars, now, runVars, si_end, si_total, seconds, ret, wake,
                   histVars, appVars, fnVars>>

\* while not stop_event.is_set(): wait_if_paused()
RunCyclesWhile ==
    /\ pc = "rc_while"
    /\ IF stop_event
       THEN /\ pc' = "rc_exit"
            /\ UNCHANGED <<stack, wp_start, wp_step>>
       ELSE CallWait(WaitStep, "rc_cycle")
    /\ UNCHANGED <<flagVars, now, runVars, si_end, si_total, seconds, ret, wake,
                   histVars, appVars, fnVars>>

\* t0 = time.monotonic(); next_start = t0 + cooldown; for r ...: for c ...
CycleStart ==
    /\ pc = "rc_cycle"
    /\ next_start' = now + cfg.cooldown_seconds
    /\ r' = 0
    /\ c' = 0
    /\ pc' = "rc_for_c"
    /\ UNCHANGED <<flagVars, now, stack, cfg, ready_at, per_position_clicks,
                   session_clicks, session_cycles_added, session_pause_time,
                   session_active_time, run_start_time, frameVars, histVars,
                   appVars, fnVars>>

\* top of the per-position iteration: if stop_event.is_set(): break;
\* wait_if_paused()
ForPosition ==
    /\ pc = "rc_for_c"
    /\ (session_clicks < MaxVisits \/ c >= Cols(cfg) \/ stop_event)
    /\ IF c >= Cols(cfg) \/ stop_event
       THEN /\ pc' = "rc_row_end"
            /\ UNCHANGED <<stack, wp_start, wp_step>>
       ELSE CallWait(WaitStep, "rc_ready")
    /\ UNCHANGED <<flagVars, now, runVars, si_end, si_total, seconds, ret, wake,
                   histVars, appVars, fnVars>>

\* now = time.monotonic(); wait = ready_at[(r, c)] - now;
\* if wait > 0: sleep_interruptible(wait)
WaitReady ==
    /\ pc = "rc_ready"
    /\ LET wait == CooldownWait(ready_at[<<r, c>>], now)
       IN  IF wait > 0
           THEN CallSleep(wait, "rc_after_wait")
           ELSE /\ pc' = "cp_entry"
                /\ UNCHANGED <<stack, si_end, si_total, seconds>>
    /\ UNCHANGED <<flagVars, now, runVars, wp_start, wp_step, ret, wake,
                   histVars, appVars, fnVars>>

\* after the cooldown wait: if stop_event.is_set(): break
AfterReadyWait ==
    /\ pc = "rc_after_wait"
    /\ pc' = IF stop_event THEN "rc_row_end" ELSE "cp_entry"
    /\ UNCHANGED <<flagVars, now, stack, runVars, frameVars, histVars,
                   appVars, fnVars>>

\* with runtime_lock: session_clicks += 1
CountClick ==
    /\ pc = "rc_count"
    /\ session_clicks' = session_clicks + 1
    /\ pc' = "rc_milestone"
    /\ UNCHANGED <<flagVars, now, stack, cfg, ready_at, per_position_clicks, r, c,
                   next_start, session_cycles_added, session_pause_time,
                   session_active_time, run_start_time, frameVars, histVars,
                   appVars, fnVars>>

\* per_position_clicks[(r, c)] += 1; if should_count_cycle(...):
\*     with runtime_lock: session_cycles_added += 1
CountPosition ==
    /\ pc = "rc_milestone"
    /\ LET pos_clicks == per_position_clicks[<<r, c>>] + 1
       IN  /\ per_position_clicks' =
                  [per_position_clicks EXCEPT ![<<r, c>>] = pos_clicks]
           /\ session_cycles_added' =
                  IF should_count_cycle(pos_clicks, cfg.clicks_per_cycle)
                  THEN session_cycles_added + 1
                  ELSE session_cycles_added
    /\ pc' = "rc_policy"
    /\ UNCHANGED <<flagVars, now, stack, cfg, ready_at, r, c, next_start,
                   session_clicks, session_pause_time, session_active_time,
                   run_start_time, frameVars, histVars, appVars, fnVars>>

AfterPolicySkipsNext ==
    /\ pc = "rc_after_policy"
    /\ IF stop_event
       THEN /\ pc' = "rc_row_end"
            /\ UNCHANGED <<ready_at, c>>
       ELSE /\ ready_at' = [ready_at EXCEPT
                               ![<<r, c>>] = MarkVisited(now, cfg.cooldown_seconds)]
            /\ c' = c + 2
            /\ pc' = "rc_for_c"
    /\ UNCHANGED <<flagVars, now, stack, cfg, per_position_clicks, r, next_start,
                   session_clicks, session_cycles_added, session_pause_time,
                   session_active_time, run_start_time, frameVars, histVars,
                   appVars, fnVars>>

AfterPolicyNoStopCheck ==
    /\ pc = "rc_after_policy"
    /\ ready_at' = [ready_at EXCEPT
                       ![<<r, c>>] = MarkVisited(now, cfg.cooldown_seconds)]
    /\ IF stop_event
       THEN /\ pc' = "rc_row_end"
            /\ UNCHANGED c
       ELSE /\ c' = c + 1
            /\ pc' = "rc_for_c"
    /\ UNCHANGED <<flagVars, now, stack, cfg, per_position_clicks, r, next_start,
                   session_clicks, session_cycles_added, session_pause_time,
                   session_active_time, run_start_time, frameVars, histVars,
                   appVars, fnVars>>

\* after maybe_pause_or_stop: if stop_event.is_set(): break;
\* ready_at[(r, c)] = time.monotonic() + cooldown; next c
AfterPolicy ==
    /\ pc = "rc_after_policy"
    /\ IF stop_event
       THEN /\ pc' = "rc_row_end"
            /\ UNCHANGED <<ready_at, c>>
       ELSE /\ ready_at' = [ready_at EXCEPT
                               ![<<r, c>>] = MarkVisited(now, cfg.cooldown_seconds)]
            /\ c' = c + 1
            /\ pc' = "rc_for_c"
    /\ UNCHANGED <<flagVars, now, stack, cfg, per_position_clicks, r, next_start,
                   session_clicks, session_cycles_added, session_pause_time,
                   session_active_time, run_start_time, frameVars, histVars,
                   appVars, fnVars>>

\* end of a row: if stop_event.is_set(): break; next r
RowEnd ==
    /\ pc = "rc_row_end"
    /\ IF stop_event \/ r + 1 >= Rows(cfg)
       THEN /\ pc' = "rc_cycle_end"
            /\ UNCHANGED <<r, c>>
       ELSE /\ r' = r + 1
            /\ c' = 0
            /\ pc' = "rc_for_c"
    /\ UNCHANGED <<flagVars, now, stack, cfg, ready_at, per_position_clicks,
                   next_start, session_clicks, session_cycles_added,
                   session_pause_time, session_active_time, run_start_time,
                   frameVars, histVars, appVars, fnVars>>

CycleEndNoCadenceWait ==
    /\ pc = "rc_cycle_end"
    /\ session_active_time' = now - run_start_time - session_pause_time
    /\ pc' = IF stop_event THEN "rc_exit" ELSE "rc_while"
    /\ UNCHANGED <<flagVars, now, stack, cfg, ready_at, per_position_clicks, r, c,
                   next_start, session_clicks, session_cycles_added,
                   session_pause_time, run_start_time, frameVars, histVars,
                   appVars, fnVars>>

\* lines 637-655: session_active_time; if stop_event.is_set(): break;
\* remaining = next_start - now; if remaining > 0: sleep_interruptible
CycleEnd ==
    /\ pc = "rc_cycle_end"
    /\ session_active_time' = now - run_start_time - session_pause_time
    /\ IF stop_event
       THEN /\ pc' = "rc_exit"
            /\ UNCHANGED <<stack, si_end, si_total, seconds>>
       ELSE LET remaining == next_start - now
            IN  IF remaining > 0
                THEN CallSleep(remaining, "rc_while")
                ELSE /\ pc' = "rc_while"
                     /\ UNCHANGED <<stack, si_end, si_total, seconds>>
    /\ UNCHANGED <<flagVars, now, cfg, ready_at, per_position_clicks, r, c,
                   next_start, session_clicks, session_cycles_added,
                   session_pause_time, run_start_time, wp_start, wp_step, ret,
                   wake, histVars, appVars, fnVars>>

\* current_position = None; log("=== STOPPED ===")
RunCyclesExit ==
    /\ pc = "rc_exit"
    /\ pc' = "done"
    /\ UNCHANGED <<flagVars, now, stack, runVars, frameVars, histVars,
                   appVars, fnVars>>


(***************************************************************************)
(* The clock                                                               *)
(***************************************************************************)
\* Time passes while the scheduling thread is inside time.sleep.
Tick ==
    /\ pc \in {"si_sleep", "wp_sleep"}
    /\ now < wake
    /\ now < MaxTime
    /\ now' = now + 1
    /\ UNCHANGED <<flagVars, pc, stack, runVars, frameVars, histVars,
                   appVars, fnVars>>

\* The same step of the clock, also counting the ticks during which
\* pause_event is clear.
TickCounted ==
    /\ pc \in {"si_sleep", "wp_sleep"}
    /\ now < wake
    /\ now < MaxTime
    /\ now' = now + 1
    /\ active_ticks' = IF pause_event THEN active_ticks ELSE active_ticks + 1
    /\ UNCHANGED <<flagVars, pc, stack, runVars, frameVars, nclicks,
                   visits_completed, stop_at, blocked_ticks, appVars, fnVars>>

\* The same step of the clock, also counting the ticks that the scheduling
\* thread spends inside the time.sleep of wait_if_paused.
TickBlocked ==
    /\ pc \in {"si_sleep", "wp_sleep"}
    /\ now < wake
    /\ now < MaxTime
    /\ now' = now + 1
    /\ blocked_ticks' = IF pc = "wp_sleep" THEN blocked_ticks + 1
                        ELSE blocked_ticks
    /\ UNCHANGED <<flagVars, pc, stack, runVars, frameVars, nclicks,
                   visits_completed, active_ticks, stop_at, appVars, fnVars>>

(***************************************************************************)
(* Controller events: hotkeys (on_key_press) and the App's buttons         *)
(***************************************************************************)
\* ESC: stop_event.set()
KeyEscEffect ==
    /\ SetStop
    /\ UNCHANGED <<pause_event, last_session, btn_start>>

KeyEsc ==
    /\ KeyEscEffect
    /\ UNCHANGED <<now, pc, stack, runVars, frameVars, nclicks,
                   visits_completed, active_ticks, blocked_ticks, worker_thread, threads,
                   overlays, dash, fnVars>>

\* F8: toggle pause_event
KeyF8 ==
    /\ pause_event' = ~pause_event
    /\ UNCHANGED <<stop_event, now, pc, stack, runVars, frameVars, histVars,
                   appVars, fnVars>>

AppPauseToggles ==
    /\ pause_event' = ~pause_event
    /\ UNCHANGED <<stop_event, stop_at, last_session, btn_start>>

\* App.pause: pause_event.set()
AppPauseEffect ==
    /\ pause_event' = TRUE
    /\ UNCHANGED <<stop_event, stop_at, last_session, btn_start>>

AppPause ==
    /\ AppPauseEffect
    /\ UNCHANGED <<now, pc, stack, runVars, frameVars, nclicks,
                   visits_completed, active_ticks, blocked_ticks, worker_thread, threads,
                   overlays, dash, fnVars>>

\* App.resume
AppResume ==
    /\ pause_event' = FALSE
    /\ UNCHANGED <<stop_event, now, pc, stack, runVars, frameVars, histVars,
                   appVars, fnVars>>

\* App.stop: stop_event.set(), record the session, re-enable Start
AppStopEffect ==
    /\ SetStop
    /\ last_session' = [cycles |-> session_cycles_added, clicks |-> session_clicks]
    /\ btn_start' = "normal"
    /\ UNCHANGED pause_event

AppStop ==
    /\ AppStopEffect
    /\ UNCHANGED <<now, pc, stack, runVars, frameVars, nclicks,
                   visits_completed, active_ticks, blocked_ticks, worker_thread, threads,
                   overlays, dash, fnVars>>

\* The events that reach a run in progress through the two flags.  App.stop
\* acts on a run exactly as ESC does (stop_event.set()).
Controller == KeyEsc \/ KeyF8 \/ AppPause \/ AppResume

(***************************************************************************)
(* The engine: one run of run_cycles on the scheduling thread              *)
(***************************************************************************)
Threads == 1 .. MaxThreads
Overlays == 1 .. MaxOverlays

IdleApp ==
    /\ worker_thread = 0
    /\ threads = [t \in Threads |-> "unborn"]
    /\ overlays = [o \in Overlays |-> [state |-> "none", seconds |-> 0]]
    /\ last_session = [cycles |-> 0, clicks |-> 0]
    /\ dash = [clicks |-> 0, cycles |-> 0, pause_time |-> 0, active_time |-> 0,
               due |-> 0]

IdleFn ==
    /\ in_a = 0
    /\ in_b = 0
    /\ out = None

IdleFrames ==
    /\ si_end = 0
    /\ si_total = 0
    /\ seconds = 0
    /\ wp_start = 0
    /\ wp_step = 0
    /\ ret = 0
    /\ wake = 0

IdleHistory ==
    /\ nclicks = 0
    /\ visits_completed = 0
    /\ active_ticks = 0
    /\ blocked_ticks = 0
    /\ stop_at = NoTime

\* module globals as loaded, before any run
IdleRun ==
    /\ ready_at = <<>>
    /\ per_position_clicks = <<>>
    /\ r = 0
    /\ c = 0
    /\ next_start = 0
    /\ session_clicks = 0
    /\ session_cycles_added = 0
    /\ session_pause_time = 0
    /\ session_active_time = 0
    /\ run_start_time = NoTime

\* The worker thread has just been started by App.start's countdown: both
\* events were cleared, Start is disabled, run_cycles is about to be entered.
Init ==
    /\ stop_event = FALSE
    /\ pause_event = FALSE
    /\ now = 0
    /\ pc = "rc_init"
    /\ stack = <<>>
    /\ cfg \in Configs
    /\ btn_start = "disabled"
    /\ IdleRun /\ IdleFrames /\ IdleHistory /\ IdleApp /\ IdleFn

Worker ==
    \/ RunCyclesInit \/ RunCyclesWhile \/ CycleStart \/ ForPosition
    \/ WaitReady \/ AfterReadyWait \/ ClickPositionEntry \/ Click1
    \/ AfterClick1 \/ AfterClickDelay \/ Click2 \/ CountClick
    \/ CountPosition \/ MaybePauseOrStop \/ AfterPolicy \/ RowEnd
    \/ CycleEnd \/ RunCyclesExit
    \/ SleepLoop \/ SleepSlice \/ SleepAfterPause \/ WaitLoop \/ WaitSlice

Next ==
    \/ Worker
    \/ Tick
    \/ (pc # "done" /\ Controller)

Spec == Init /\ [][Next]_vars


(***************************************************************************)
(* The same run under fair scheduling: the scheduling thread keeps being   *)
(* scheduled, time.sleep returns, and every click call returns.            *)
(***************************************************************************)
LiveConfigs ==
    { [BaseCfg EXCEPT !.always_second_click = TRUE],
      [BaseCfg EXCEPT !.rows = 2, !.cols = 1, !.cooldown_seconds = 4,
                      !.between_positions_delay = 0,
                      !.pause_at_cycles = Some(1)] }

InitLive ==
    /\ stop_event = FALSE
    /\ pause_event = FALSE
    /\ now = 0
    /\ pc = "rc_init"
    /\ stack = <<>>
    /\ cfg \in LiveConfigs
    /\ btn_start = "disabled"
    /\ IdleRun /\ IdleFrames /\ IdleHistory /\ IdleApp /\ IdleFn

SpecLive ==
    /\ InitLive
    /\ [][Next]_vars
    /\ WF_vars(Worker)
    /\ WF_vars(Tick)

(***************************************************************************)
(* A run with the time spent blocked in wait_if_paused counted             *)
(***************************************************************************)
PauseConfigs ==
    { [BaseCfg EXCEPT !.always_second_click = TRUE, !.cooldown_seconds = 2],
      [BaseCfg EXCEPT !.cols = 1, !.between_positions_delay = 0] }

InitPause ==
    /\ stop_event = FALSE
    /\ pause_event = FALSE
    /\ now = 0
    /\ pc = "rc_init"
    /\ stack = <<>>
    /\ cfg \in PauseConfigs
    /\ btn_start = "disabled"
    /\ IdleRun /\ IdleFrames /\ IdleHistory /\ IdleApp /\ IdleFn

NextPause ==
    \/ Worker
    \/ TickBlocked
    \/ (pc # "done" /\ Controller)

SpecPause == InitPause /\ [][NextPause]_vars

(***************************************************************************)
(* A run whose only limit is stop-after-minutes, with the unpaused ticks   *)
(* counted                                                                 *)
(***************************************************************************)
LimitConfigs ==
    { [BaseCfg EXCEPT !.stop_after_minutes = Some(2)],
      [BaseCfg EXCEPT !.stop_after_minutes = Some(3), !.cooldown_seconds = 4,
                      !.cols = 1, !.between_positions_delay = 0],
      [BaseCfg EXCEPT !.stop_after_minutes = Some(1), !.always_second_click = TRUE,
                      !.cooldown_seconds = 2] }

InitLimit ==
    /\ stop_event = FALSE
    /\ pause_event = FALSE
    /\ now = 0
    /\ pc = "rc_init"
    /\ stack = <<>>
    /\ cfg \in LimitConfigs
    /\ btn_start = "disabled"
    /\ IdleRun /\ IdleFrames /\ IdleHistory /\ IdleApp /\ IdleFn

NextLimit ==
    \/ Worker
    \/ TickCounted
    \/ (pc # "done" /\ Controller)

SpecLimit == InitLimit /\ [][NextLimit]_vars

(***************************************************************************)
(* One call of sleep_interruptible(seconds), started at time 0             *)
(***************************************************************************)
InitSleep ==
    /\ stop_event = FALSE
    /\ pause_event = FALSE
    /\ now = 0
    /\ pc = "si_loop"
    /\ stack = <<"returned">>
    /\ cfg = BaseCfg
    /\ btn_start = "disabled"
    /\ seconds \in 0 .. MaxSleep
    /\ in_a = seconds
    /\ in_b = 0
    /\ out = None
    /\ si_end = SleepDeadline(0, seconds)
    /\ si_total = 0
    /\ wp_start = 0
    /\ wp_step = 0
    /\ ret = 0
    /\ wake = 0
    /\ IdleRun /\ IdleHistory /\ IdleApp

NextSleep ==
    \/ SleepLoop \/ SleepSlice \/ SleepAfterPause \/ WaitLoop \/ WaitSlice
    \/ TickCounted
    \/ (pc # "returned" /\ Controller)

SpecSleep == InitSleep /\ [][NextSleep]_vars

(***************************************************************************)
(* should_count_cycle applied to a count and a visits-per-threshold value  *)
(***************************************************************************)
InitCount ==
    /\ stop_event = FALSE
    /\ pause_event = FALSE
    /\ now = 0
    /\ pc = "idle"
    /\ stack = <<>>
    /\ cfg = BaseCfg
    /\ btn_start = "normal"
    /\ in_a \in 1 .. MaxCount
    /\ in_b \in (0 - 1) .. MaxN
    /\ out = None
    /\ IdleRun /\ IdleFrames /\ IdleHistory /\ IdleApp

ApplyShouldCount ==
    /\ out = None
    /\ out' = Some(should_count_cycle(in_a, in_b))
    /\ UNCHANGED <<flagVars, now, pc, stack, runVars, frameVars, histVars,
                   appVars, in_a, in_b>>

SpecCount == InitCount /\ [][ApplyShouldCount]_vars


(***************************************************************************)
(* The App (v2): Start, the countdown overlay, Stop and the worker threads *)
(* it creates.  Handlers run one at a time on the Tk main thread.  A       *)
(* worker is followed through _run_worker: the call of run_cycles, its     *)
(* return - which every path of run_cycles reaches only by reading         *)
(* stop_event set, or by an exception of the click - and the finally block.*)
(***************************************************************************)
is_alive(t) == threads[t] \in {"started", "run_cycles", "finally"}

\* App.start (bound to the Start button, which must be enabled)
AppStart ==
    /\ btn_start = "normal"
    /\ IF worker_thread # 0 /\ is_alive(worker_thread)
       THEN UNCHANGED <<stop_event, pause_event, stop_at, btn_start, overlays>>
       ELSE /\ \E o \in Overlays :
                 \* a new overlay; one that completed or was cancelled is
                 \* destroyed and leaves its place
                 /\ overlays[o].state # "open"
                 /\ \A q \in Overlays : q < o => overlays[q].state = "open"
                 \* CountdownOverlay.__init__ runs the first _tick itself
                 /\ overlays' = [overlays EXCEPT
                        ![o] = [state |-> "open", seconds |-> CountdownSeconds - 1]]
            /\ stop_event' = FALSE
            /\ pause_event' = FALSE
            /\ stop_at' = NoTime
            /\ btn_start' = "disabled"
    /\ UNCHANGED <<now, pc, stack, runVars, frameVars, nclicks, visits_completed,
                   active_ticks, blocked_ticks, worker_thread, threads, last_session, dash,
                   fnVars>>

\* CountdownOverlay._tick, from its 1000 ms timer; at zero: destroy and
\* on_complete, which creates and starts the worker thread
OverlayTick(o) ==
    /\ overlays[o].state = "open"
    /\ IF overlays[o].seconds <= 0
       THEN \E t \in Threads :
                /\ threads[t] = "unborn"
                /\ \A u \in Threads : u < t => threads[u] # "unborn"
                /\ threads' = [threads EXCEPT ![t] = "started"]
                /\ worker_thread' = t
                /\ overlays' = [overlays EXCEPT ![o].state = "completed"]
       ELSE /\ overlays' = [overlays EXCEPT ![o].seconds = @ - 1]
            /\ UNCHANGED <<threads, worker_thread>>
    /\ UNCHANGED <<flagVars, now, pc, stack, runVars, frameVars, histVars,
                   btn_start, last_session, dash,
                   fnVars>>

\* CountdownOverlay._cancel (Cancel button or Escape on the overlay):
\* on_cancel sets stop_event and re-enables Start
OverlayCancel(o) ==
    /\ overlays[o].state = "open"
    /\ overlays' = [overlays EXCEPT ![o].state = "cancelled"]
    /\ SetStop
    /\ btn_start' = "normal"
    /\ UNCHANGED <<pause_event, now, pc, stack, runVars, frameVars, nclicks,
                   visits_completed, active_ticks, blocked_ticks, worker_thread, threads,
                   last_session, dash,
                   fnVars>>

\* _run_worker calls run_cycles(self.state_obj): lines 544-572
WorkerEnter(t) ==
    /\ threads[t] = "started"
    /\ threads' = [threads EXCEPT ![t] = "run_cycles"]
    /\ per_position_clicks' = [p \in Positions(cfg) |-> 0]
    /\ session_clicks' = 0
    /\ session_cycles_added' = 0
    /\ session_pause_time' = 0
    /\ session_active_time' = 0
    /\ run_start_time' = now
    /\ UNCHANGED <<flagVars, now, pc, stack, cfg, ready_at, r, c, next_start,
                   frameVars, histVars, worker_thread, overlays, btn_start,
                   last_session, dash,
                   fnVars>>

\* run_cycles returns: its loops are left only where stop_event is read set
WorkerLeave(t) ==
    /\ threads[t] = "run_cycles"
    /\ stop_event
    /\ threads' = [threads EXCEPT ![t] = "finally"]
    /\ UNCHANGED <<flagVars, now, pc, stack, runVars, frameVars, histVars,
                   worker_thread, overlays, btn_start, last_session, dash,
                   fnVars>>

\* the click raises (FailSafeException or any other): stop_event.set()
WorkerFault(t) ==
    /\ threads[t] = "run_cycles"
    /\ threads' = [threads EXCEPT ![t] = "finally"]
    /\ SetStop
    /\ UNCHANGED <<pause_event, now, pc, stack, runVars, frameVars, nclicks,
                   visits_completed, active_ticks, blocked_ticks, worker_thread, overlays,
                   btn_start, last_session, dash,
                   fnVars>>

\* finally: record the session, save, self.after(0, self._on_worker_done)
WorkerFinally(t) ==
    /\ threads[t] = "finally"
    /\ threads' = [threads EXCEPT ![t] = "done_posted"]
    /\ last_session' = [cycles |-> session_cycles_added, clicks |-> session_clicks]
    /\ UNCHANGED <<flagVars, now, pc, stack, runVars, frameVars, histVars,
                   worker_thread, overlays, btn_start, dash,
                   fnVars>>

\* App._on_worker_done
OnWorkerDone(t) ==
    /\ threads[t] = "done_posted"
    /\ threads' = [threads EXCEPT ![t] = "dead"]
    /\ btn_start' = "normal"
    /\ UNCHANGED <<flagVars, now, pc, stack, runVars, frameVars, histVars,
                   worker_thread, overlays, last_session, dash,
                   fnVars>>

InitApp ==
    /\ stop_event = FALSE
    /\ pause_event = FALSE
    /\ now = 0
    /\ pc = "idle"
    /\ stack = <<>>
    /\ cfg = BaseCfg
    /\ btn_start = "normal"
    /\ IdleRun /\ IdleFrames /\ IdleHistory /\ IdleApp /\ IdleFn

NextApp ==
    \/ AppStart
    \/ AppStop
    \/ KeyEsc \/ KeyF8 \/ AppPause \/ AppResume
    \/ \E o \in Overlays : OverlayTick(o) \/ OverlayCancel(o)
    \/ \E t \in Threads :
          \/ WorkerEnter(t) \/ WorkerLeave(t) \/ WorkerFault(t)
          \/ WorkerFinally(t) \/ OnWorkerDone(t)

SpecApp == InitApp /\ [][NextApp]_vars

(***************************************************************************)
(* The milestone rule of each variant of the engine, applied to a visit    *)
(* count and a visits-per-threshold value that may be zero or negative     *)
(***************************************************************************)
\* Python's a % n for n # 0: the result takes the sign of the divisor
PyMod(a, n) == IF n > 0 THEN a % n ELSE 0 - ((0 - a) % (0 - n))

\* v1 (autoclicker_grid_V1.py, autoclicker_grid_UI.py): should_consume_shovel
should_consume_shovel(tile_harvest_count, harvests_per_shovel) ==
    LET n == Max(1, harvests_per_shovel)
    IN  ((tile_harvest_count - 1) % n) = 0

\* v1 script (autoclicker_grid.py), inline in run_cycles:
\* if (tile_h - 1) % HARVESTS_PER_SHOVEL == 0
ShovelTestRaises(HARVESTS_PER_SHOVEL) == HARVESTS_PER_SHOVEL = 0
ShovelTest(tile_h, HARVESTS_PER_SHOVEL) ==
    PyMod(tile_h - 1, HARVESTS_PER_SHOVEL) = 0

RuleVariants == {"should_count_cycle", "should_consume_shovel", "shovel_test"}

InitRule ==
    /\ stop_event = FALSE
    /\ pause_event = FALSE
    /\ now = 0
    /\ pc \in RuleVariants
    /\ stack = <<>>
    /\ cfg = BaseCfg
    /\ btn_start = "normal"
    /\ in_a \in 1 .. MaxCount
    /\ in_b \in (0 - MaxNeg) .. MaxN
    /\ out = None
    /\ IdleRun /\ IdleFrames /\ IdleHistory /\ IdleApp

\* v2: should_count_cycle(position_click_count, counter_cfg)
ApplyRuleV2 ==
    /\ pc = "should_count_cycle"
    /\ out' = Some(should_count_cycle(in_a, in_b))
    /\ pc' = "returned"
    /\ UNCHANGED <<flagVars, now, stack, runVars, frameVars, histVars,
                   appVars, in_a, in_b>>

\* v1: should_consume_shovel(tile_harvest_count, counter_cfg)
ApplyRuleV1 ==
    /\ pc = "should_consume_shovel"
    /\ out' = Some(should_consume_shovel(in_a, in_b))
    /\ pc' = "returned"
    /\ UNCHANGED <<flagVars, now, stack, runVars, frameVars, histVars,
                   appVars, in_a, in_b>>

\* v1 script: the unclamped test; % by zero raises ZeroDivisionError
ApplyRuleScript ==
    /\ pc = "shovel_test"
    /\ IF ShovelTestRaises(in_b)
       THEN /\ pc' = "raised"
            /\ UNCHANGED out
       ELSE /\ pc' = "returned"
            /\ out' = Some(ShovelTest(in_a, in_b))
    /\ UNCHANGED <<flagVars, now, stack, runVars, frameVars, histVars,
                   appVars, in_a, in_b>>

NextRule == ApplyRuleV2 \/ ApplyRuleV1 \/ ApplyRuleScript

SpecRule == InitRule /\ [][NextRule]_vars

(***************************************************************************)
(* A run observed by the dashboard: App._update_dashboard, from the Tk     *)
(* main thread's 200 ms timer, reads the run counters under runtime_lock   *)
(* at any point where the scheduling thread does not hold the lock.        *)
(***************************************************************************)
\* The milestones produced by the visits that session_clicks has counted:
\* between `session_clicks += 1` and the milestone rule of the same
\* iteration, the rule's outcome for that visit is still to be added.
MilestonesOfCountedVisits ==
    session_cycles_added +
        (IF /\ pc = "rc_milestone"
            /\ should_count_cycle(per_position_clicks[<<r, c>>] + 1,
                                  cfg.clicks_per_cycle)
         THEN 1 ELSE 0)

\* with runtime_lock: clicks = session_clicks; cycles = session_cycles_added;
\* pause_time = session_pause_time; active_time = session_active_time
\* (due is history: the milestones of the visits counted at that moment)
UpdateDashboard ==
    /\ dash' = [clicks |-> session_clicks, cycles |-> session_cycles_added,
                pause_time |-> session_pause_time,
                active_time |-> session_active_time,
                due |-> MilestonesOfCountedVisits]
    /\ UNCHANGED <<flagVars, now, pc, stack, runVars, frameVars, histVars,
                   worker_thread, threads, overlays, btn_start, last_session,
                   fnVars>>

DashConfigs ==
    { [BaseCfg EXCEPT !.cooldown_seconds = 2],
      [BaseCfg EXCEPT !.cols = 1, !.clicks_per_cycle = 1, !.cooldown_seconds = 2,
                      !.between_positions_delay = 0,
                      !.always_second_click = TRUE] }

InitDash ==
    /\ stop_event = FALSE
    /\ pause_event = FALSE
    /\ now = 0
    /\ pc = "rc_init"
    /\ stack = <<>>
    /\ cfg \in DashConfigs
    /\ btn_start = "disabled"
    /\ IdleRun /\ IdleFrames /\ IdleHistory /\ IdleApp /\ IdleFn

NextDash ==
    \/ Worker
    \/ Tick
    \/ (pc # "done" /\ Controller)
    \/ (pc # "done" /\ UpdateDashboard)

SpecDash == InitDash /\ [][NextDash]_vars

(***************************************************************************)
(* The same request made twice in a row: App.stop, the ESC hotkey or       *)
(* App.pause, from any state of the two flags.  out keeps the flags as     *)
(* they were after the first request.                                      *)
(***************************************************************************)
Requests == {"App.stop", "ESC", "App.pause"}

InitTwice ==
    /\ stop_event \in BOOLEAN
    /\ pause_event \in BOOLEAN
    /\ now \in 0 .. MaxTime
    /\ pc = "idle"
    /\ stack = <<>>
    /\ cfg = BaseCfg
    /\ btn_start \in {"normal", "disabled"}
    /\ in_a \in Requests
    /\ in_b = 0
    /\ out = None
    /\ nclicks = 0
    /\ visits_completed = 0
    /\ active_ticks = 0
    /\ blocked_ticks = 0
    /\ stop_at = IF stop_event THEN 0 ELSE NoTime
    /\ IdleRun /\ IdleFrames /\ IdleApp

\* the request has been made once more
Requested ==
    /\ pc \in {"idle", "once"}
    /\ pc' = IF pc = "idle" THEN "once" ELSE "twice"
    /\ out' = IF pc = "idle" THEN Some(<<stop_event', pause_event'>>) ELSE out
    /\ UNCHANGED <<now, stack, runVars, frameVars, nclicks, visits_completed,
                   active_ticks, blocked_ticks, worker_thread, threads, overlays, dash,
                   in_a, in_b>>

RequestAppStop == in_a = "App.stop" /\ AppStopEffect /\ Requested
RequestKeyEsc == in_a = "ESC" /\ KeyEscEffect /\ Requested
RequestAppPause == in_a = "App.pause" /\ AppPauseEffect /\ Requested

NextTwice == RequestAppStop \/ RequestKeyEsc \/ RequestAppPause

SpecTwice == InitTwice /\ [][NextTwice]_vars

(***************************************************************************)
(* A whole session of the App (v2) with the engine: Start, the countdown,  *)
(* the worker thread running run_cycles step by step, its return, the      *)
(* finally block and _on_worker_done.  The configuration is the one that   *)
(* _sync_state_from_ui copies from the fields; here the fields hold grid   *)
(* dimensions that are zero or negative, or negative durations.            *)
(***************************************************************************)
InvalidConfigs ==
    { [BaseCfg EXCEPT !.rows = 0, !.cols = 0 - 1, !.click_delay = 0 - 1,
                      !.always_second_click = TRUE, !.cooldown_seconds = 2],
      [BaseCfg EXCEPT !.cols = 1, !.cooldown_seconds = 0 - 1,
                      !.between_positions_delay = 0 - 1] }

InitSession ==
    /\ stop_event = FALSE
    /\ pause_event = FALSE
    /\ now = 0
    /\ pc = "idle"
    /\ stack = <<>>
    /\ cfg \in InvalidConfigs
    /\ btn_start = "normal"
    /\ IdleRun /\ IdleFrames /\ IdleHistory /\ IdleApp /\ IdleFn

\* _run_worker: run_cycles(self.state_obj) is entered
RunWorkerCalls(t) ==
    /\ threads[t] = "started"
    /\ pc = "idle"
    /\ threads' = [threads EXCEPT ![t] = "run_cycles"]
    /\ pc' = "rc_init"
    /\ UNCHANGED <<flagVars, now, stack, runVars, frameVars, histVars,
                   worker_thread, overlays, btn_start, last_session, dash,
                   fnVars>>

\* run_cycles has returned to _run_worker
RunWorkerReturns(t) ==
    /\ threads[t] = "run_cycles"
    /\ pc = "done"
    /\ threads' = [threads EXCEPT ![t] = "finally"]
    /\ pc' = "idle"
    /\ UNCHANGED <<flagVars, now, stack, runVars, frameVars, histVars,
                   worker_thread, overlays, btn_start, last_session, dash,
                   fnVars>>

NextSession ==
    \/ AppStart
    \/ \E o \in Overlays : OverlayTick(o) \/ OverlayCancel(o)
    \/ \E t \in Threads :
          \/ RunWorkerCalls(t) \/ RunWorkerReturns(t)
          \/ WorkerFinally(t) \/ OnWorkerDone(t)
    \/ Worker
    \/ Tick
    \/ (pc \notin {"idle", "done"} /\ (KeyEsc \/ KeyF8))

SpecSession == InitSession /\ [][NextSession]_vars

(***************************************************************************)
(* A run in which a click may raise (pyautogui.FailSafeException or any    *)
(* other exception).  The exception leaves click_position and run_cycles,  *)
(* neither of which catches it, and reaches _run_worker:                   *)
(*   v2    try / except: stop_event.set() / finally  (V2.py 2152-2169)     *)
(*   v1    try / finally, no except clause      (v1 UI.py 1020-1032)       *)
(* in_a is the variant of the App that runs the engine.                    *)
(***************************************************************************)
AppVariants == {"v2", "v1"}

InitFault ==
    /\ stop_event = FALSE
    /\ pause_event = FALSE
    /\ now = 0
    /\ pc = "rc_init"
    /\ stack = <<>>
    /\ cfg \in LiveConfigs
    /\ btn_start = "disabled"
    /\ worker_thread = 1
    /\ threads = [t \in Threads |-> IF t = 1 THEN "run_cycles" ELSE "unborn"]
    /\ overlays = [o \in Overlays |-> [state |-> "none", seconds |-> 0]]
    /\ last_session = [cycles |-> 0, clicks |-> 0]
    /\ dash = [clicks |-> 0, cycles |-> 0, pause_time |-> 0, active_time |-> 0,
               due |-> 0]
    /\ in_a \in AppVariants
    /\ in_b = 0
    /\ out = None
    /\ IdleRun /\ IdleFrames /\ IdleHistory

\* pyautogui.click raises: no click is made, the frames of click_position
\* and run_cycles are unwound
ClickRaises(t) ==
    /\ threads[t] = "run_cycles"
    /\ pc \in {"cp_click1", "cp_click2"}
    /\ pc' = "raised"
    /\ stack' = <<>>
    /\ threads' = [threads EXCEPT ![t] = "finally"]
    /\ UNCHANGED <<pause_event, now, runVars, frameVars, nclicks,
                   visits_completed, active_ticks, blocked_ticks, worker_thread, overlays,
                   btn_start, last_session, dash, fnVars>>

\* v2 _run_worker: except ...: append_log(...); stop_event.set()
ClickRaisesV2(t) ==
    /\ in_a = "v2"
    /\ ClickRaises(t)
    /\ SetStop

\* v1 _run_worker: no except clause, the finally block is next
ClickRaisesV1(t) ==
    /\ in_a = "v1"
    /\ ClickRaises(t)
    /\ UNCHANGED <<stop_event, stop_at>>

NextFault ==
    \/ Worker
    \/ Tick
    \/ (pc \notin {"done", "raised", "idle"} /\ (KeyEsc \/ KeyF8))
    \/ \E t \in Threads :
          \/ ClickRaisesV2(t) \/ ClickRaisesV1(t) \/ RunWorkerReturns(t)
          \/ WorkerFinally(t) \/ OnWorkerDone(t)

SpecFault == InitFault /\ [][NextFault]_vars

(***************************************************************************)
(* A run during which the Save button is used: App.save_to_disk copies the *)
(* entry fields into the grid / timing / counters objects that run_cycles  *)
(* holds references to.                                                    *)
(***************************************************************************)
SaveConfigs ==
    { [BaseCfg EXCEPT !.cols = 1],
      [BaseCfg EXCEPT !.cols = 1, !.cooldown_seconds = 1,
                      !.always_second_click = TRUE, !.target_cycles = Some(2)] }

\* App._sync_state_from_ui: every field is assigned from its entry field.
\* rows, cols and start_cycles_done are kept: run_cycles copied them into
\* locals before its loop and does not read them again.
sync_state_from_ui(k) ==
    { e \in SaveConfigs : /\ e.rows = k.rows
                          /\ e.cols = k.cols
                          /\ e.start_cycles_done = k.start_cycles_done }

\* App.save_to_disk: self._sync_state_from_ui(); save_state(self.state_obj)
SaveToDisk ==
    /\ cfg' \in sync_state_from_ui(cfg)
    /\ UNCHANGED <<flagVars, now, pc, stack, ready_at, per_position_clicks, r, c,
                   next_start, session_clicks, session_cycles_added,
                   session_pause_time, session_active_time, run_start_time,
                   frameVars, histVars, appVars, fnVars>>

\* in_a keeps the configuration App.start handed to the worker.
InitSave ==
    /\ stop_event = FALSE
    /\ pause_event = FALSE
    /\ now = 0
    /\ pc = "rc_init"
    /\ stack = <<>>
    /\ cfg \in SaveConfigs
    /\ btn_start = "disabled"
    /\ in_a = cfg
    /\ in_b = 0
    /\ out = None
    /\ IdleRun /\ IdleFrames /\ IdleHistory /\ IdleApp

NextSave ==
    \/ Worker
    \/ Tick
    \/ (pc # "done" /\ (KeyF8 \/ SaveToDisk))

SpecSave == InitSave /\ [][NextSave]_vars

(***************************************************************************)
(* A run with a pause threshold, where only the policy pauses: the user    *)
(* resumes (App.resume) or stops (ESC).  Ticks blocked in wait_if_paused   *)
(* are counted.                                                            *)
(***************************************************************************)
AutoConfigs ==
    { [BaseCfg EXCEPT !.pause_at_cycles = Some(1), !.cols = 1,
                      !.clicks_per_cycle = 1],
      [BaseCfg EXCEPT !.pause_after_minutes = Some(1),
                      !.always_second_click = TRUE] }

InitAuto ==
    /\ stop_event = FALSE
    /\ pause_event = FALSE
    /\ now = 0
    /\ pc = "rc_init"
    /\ stack = <<>>
    /\ cfg \in AutoConfigs
    /\ btn_start = "disabled"
    /\ IdleRun /\ IdleFrames /\ IdleHistory /\ IdleApp /\ IdleFn

NextAuto ==
    \/ Worker
    \/ TickBlocked
    \/ (pc # "done" /\ (AppResume \/ KeyEsc))

SpecAuto == InitAuto /\ [][NextAuto]_vars

(***************************************************************************)
(* A run that the user pauses and resumes (F8 or App.pause / App.resume)   *)
(* and never stops.  in_a tells whether a pause is being held, in_b and    *)
(* out keep the click count and the visit count at the moment it began.    *)
(***************************************************************************)
\* on_key_press F8 with pause_event clear / App.pause: pause_event.set()
PauseAndHold ==
    /\ in_a = 0
    /\ ~pause_event
    /\ pause_event' = TRUE
    /\ in_a' = 1
    /\ in_b' = nclicks
    /\ out' = Some(session_clicks)
    /\ UNCHANGED <<stop_event, now, pc, stack, runVars, frameVars, histVars,
                   appVars>>

\* on_key_press F8 with pause_event set / App.resume: pause_event.clear()
ResumeAfterHold ==
    /\ in_a = 1
    /\ pause_event
    /\ pause_event' = FALSE
    /\ in_a' = 0
    /\ in_b' = 0
    /\ out' = None
    /\ UNCHANGED <<stop_event, now, pc, stack, runVars, frameVars, histVars,
                   appVars>>

NextHold ==
    \/ Worker
    \/ Tick
    \/ (pc \notin {"rc_init", "done"} /\ PauseAndHold)
    \/ (pc \notin {"rc_init", "done"} /\ ResumeAfterHold)

SpecHold == Init /\ [][NextHold]_vars

(***************************************************************************)
(* Runs with a target, two of them started with the milestone count        *)
(* already at or above it.  The user pauses and resumes (F8) but does not  *)
(* stop: only the policy sets stop_event.                                  *)
(***************************************************************************)
LateConfigs ==
    { [BaseCfg EXCEPT !.target_cycles = Some(2), !.start_cycles_done = 2],
      [BaseCfg EXCEPT !.rows = 2, !.cols = 1, !.target_cycles = Some(1),
                      !.start_cycles_done = 3, !.always_second_click = TRUE,
                      !.between_positions_delay = 0],
      [BaseCfg EXCEPT !.cols = 1, !.clicks_per_cycle = 1,
                      !.target_cycles = Some(2)] }

InitLate ==
    /\ stop_event = FALSE
    /\ pause_event = FALSE
    /\ now = 0
    /\ pc = "rc_init"
    /\ stack = <<>>
    /\ cfg \in LateConfigs
    /\ btn_start = "disabled"
    /\ IdleRun /\ IdleFrames /\ IdleHistory /\ IdleApp /\ IdleFn

NextLate ==
    \/ Worker
    \/ Tick
    \/ (pc # "done" /\ KeyF8)

SpecLate == InitLate /\ [][NextLate]_vars

(***************************************************************************)
(* One press of Start, its countdown and the run that follows, with stop   *)
(* requests (ESC hotkey, Stop button, Cancel on the overlay) at any moment *)
(* from the press on.  in_a is the variant of the App:                     *)
(*   v2    CountdownOverlay, which does not read stop_event                *)
(*   v1    App._start_countdown, which tests stop_event at every second    *)
(***************************************************************************)
\* the first and only press of Start in the session
AppStartOnce ==
    /\ \A o \in Overlays : overlays[o].state = "none"
    /\ \A t \in Threads : threads[t] = "unborn"
    /\ AppStart

OverlayTickV2(o) ==
    /\ in_a = "v2"
    /\ OverlayTick(o)

OverlayCancelV2(o) ==
    /\ in_a = "v2"
    /\ OverlayCancel(o)

\* v1 App._start_countdown(n): if stop_event.is_set(): re-enable Start and
\* return; if n <= 0: create and start the worker; else after(1000, n - 1)
StartCountdownV1(o) ==
    /\ in_a = "v1"
    /\ overlays[o].state = "open"
    /\ IF stop_event
       THEN /\ overlays' = [overlays EXCEPT ![o].state = "cancelled"]
            /\ btn_start' = "normal"
            /\ UNCHANGED <<threads, worker_thread>>
       ELSE IF overlays[o].seconds <= 0
       THEN /\ \E t \in Threads :
                  /\ threads[t] = "unborn"
                  /\ \A u \in Threads : u < t => threads[u] # "unborn"
                  /\ threads' = [threads EXCEPT ![t] = "started"]
                  /\ worker_thread' = t
            /\ overlays' = [overlays EXCEPT ![o].state = "completed"]
            /\ UNCHANGED btn_start
       ELSE /\ overlays' = [overlays EXCEPT ![o].seconds = @ - 1]
            /\ UNCHANGED <<threads, worker_thread, btn_start>>
    /\ UNCHANGED <<flagVars, now, pc, stack, runVars, frameVars, histVars,
                   last_session, dash, fnVars>>

CountingDown == \E o \in Overlays : overlays[o].state = "open"

InitCountdown ==
    /\ stop_event = FALSE
    /\ pause_event = FALSE
    /\ now = 0
    /\ pc = "idle"
    /\ stack = <<>>
    /\ cfg \in LiveConfigs
    /\ btn_start = "normal"
    /\ in_a \in AppVariants
    /\ in_b = 0
    /\ out = None
    /\ IdleRun /\ IdleFrames /\ IdleHistory /\ IdleApp

NextCountdown ==
    \/ AppStartOnce
    \/ \E o \in Overlays :
          OverlayTickV2(o) \/ OverlayCancelV2(o) \/ StartCountdownV1(o)
    \/ \E t \in Threads :
          \/ RunWorkerCalls(t) \/ RunWorkerReturns(t)
          \/ WorkerFinally(t) \/ OnWorkerDone(t)
    \/ Worker
    \/ Tick
    \/ ((CountingDown \/ pc \notin {"idle", "done"}) /\ (KeyEsc \/ AppStop))
    \/ (pc \notin {"idle", "done"} /\ KeyF8)

SpecCountdown == InitCountdown /\ [][NextCountdown]_vars

(***************************************************************************)
(* A run without limits under fair scheduling: the                         *)
(* scheduling thread keeps being scheduled, time.sleep returns, every      *)
(* click call returns, and the pause the user requests is followed by a    *)
(* resume.  in_a is "running" before the pause, "held" while the user      *)
(* holds it and "resumed" afterwards; the clock advances at most MaxHold   *)
(* ticks while the thread is blocked by a held pause.  ESC may stop the    *)
(* run; nothing obliges it to.                                             *)
(***************************************************************************)
FairConfigs ==
    { [BaseCfg EXCEPT !.cooldown_seconds = 1],
      [BaseCfg EXCEPT !.rows = 2, !.cols = 1, !.cooldown_seconds = 2,
                      !.always_second_click = TRUE,
                      !.between_positions_delay = 0] }

InitFair ==
    /\ stop_event = FALSE
    /\ pause_event = FALSE
    /\ now = 0
    /\ pc = "rc_init"
    /\ stack = <<>>
    /\ cfg \in FairConfigs
    /\ btn_start = "disabled"
    /\ in_a = "running"
    /\ in_b = 0
    /\ out = None
    /\ IdleRun /\ IdleFrames /\ IdleHistory /\ IdleApp

\* F8 with pause_event clear / App.pause
PauseHeld ==
    /\ in_a = "running"
    /\ pc \notin {"rc_init", "done"}
    /\ pause_event' = TRUE
    /\ in_a' = "held"
    /\ UNCHANGED <<stop_event, now, pc, stack, runVars, frameVars, histVars,
                   appVars, in_b, out>>

\* F8 with pause_event set / App.resume
ResumeHeld ==
    /\ in_a = "held"
    /\ pause_event' = FALSE
    /\ in_a' = "resumed"
    /\ UNCHANGED <<stop_event, now, pc, stack, runVars, frameVars, histVars,
                   appVars, in_b, out>>

TickHeld ==
    /\ (pc = "wp_sleep" /\ pause_event) => blocked_ticks < MaxHold
    /\ TickBlocked

NextFair ==
    \/ Worker
    \/ TickHeld
    \/ PauseHeld
    \/ ResumeHeld
    \/ (pc \notin {"rc_init", "done"} /\ KeyEsc)

SpecFair ==
    /\ InitFair
    /\ [][NextFair]_vars
    /\ WF_vars(Worker)
    /\ WF_vars(TickHeld)
    /\ WF_vars(ResumeHeld)

(***************************************************************************)
(* Properties                                                              *)
(***************************************************************************)
Total == cfg.start_cycles_done + session_cycles_added
PollInterval == Max(SleepStep, WaitStep)
Stopped == pc \in {"rc_exit", "done"}

\* C1: once stop has been requested the scheduling thread issues no further
\* click: no pyautogui.click is issued at a time later than the time at
\* which stop was requested, whatever the pause, resume and stop events.
C1_NoClickAfterStop ==
    [][nclicks' > nclicks => ~(stop_event /\ stop_at < now)]_vars

\* C3: with a target T set and the starting count below T, the total
\* milestone count never exceeds T, stop is set by the policy evaluation of
\* the iteration in which the total reaches T, and from then on no click is
\* issued and no visit is counted.
C3_TargetStop ==
    /\ [](\A t \in cfg.target_cycles :
            cfg.start_cycles_done < t =>
                /\ Total <= t
                /\ (Total >= t /\ pc # "rc_policy") => stop_event)
    /\ [][\A t \in cfg.target_cycles :
            (cfg.start_cycles_done < t /\ Total >= t) =>
                (nclicks' = nclicks /\ session_clicks' = session_clicks)]_vars

C3_TargetReached ==
    /\ pc = "done"
    /\ \E t \in cfg.target_cycles :
          cfg.start_cycles_done < t /\ Total = t /\ session_clicks >= 2

\* C7: a click on position p is never issued at a time earlier than
\* ready_at[p], for every interleaving of pause and resume.
C7_ClickNotBeforeReady ==
    pc \in {"cp_click1", "cp_after_click1", "cp_click2"} =>
        now >= ready_at[<<r, c>>]

C7_SecondVisitClicked ==
    /\ pc = "cp_after_click1"
    /\ per_position_clicks[<<r, c>>] >= 1
    /\ ready_at[<<r, c>>] > 0
    /\ session_pause_time > 0

\* C8: the visit counters are incremented exactly once for each completed
\* visit and not for a visit that click_position abandoned: at the end of
\* every iteration the total visit counter equals the number of visits in
\* which every configured click was issued.
C8_CountsOnlyCompletedVisits ==
    pc = "rc_policy" => session_clicks = visits_completed

RECURSIVE SumCeil(_, _, _)
SumCeil(S, f, n) ==
    IF S = {} THEN 0
    ELSE LET p == CHOOSE x \in S : TRUE
         IN  ((f[p] + n - 1) \div n) + SumCeil(S \ {p}, f, n)

\* C10: the session milestone counter equals the sum over the positions p
\* of ceil(count[p] / N), N being the clamped visits-per-threshold.
C10_MilestonesAreCeilSum ==
    session_cycles_added =
        SumCeil(DOMAIN per_position_clicks, per_position_clicks,
                Max(1, cfg.clicks_per_cycle))

C10_FourVisitsTwoMilestones ==
    /\ cfg.clicks_per_cycle = 3
    /\ per_position_clicks = (<<0, 0>> :> 4)
    /\ session_cycles_added = 2


\* C4 (as claimed): with stop-after-minutes as the only limit, the run is
\* Stopped within one poll interval of the moment its accumulated unpaused
\* time reaches the limit, whatever the engine is doing at that moment.
C4_StoppedWithinPollOfActiveLimit ==
    \A m \in cfg.stop_after_minutes :
        (run_start_time # NoTime /\ active_ticks > m + PollInterval) => Stopped

\* C4 (amended): with stop-after-minutes as the only limit, a policy
\* evaluation sets stop exactly when the wall-clock time elapsed since the
\* start of the run, paused time included, has reached the limit (or stop
\* was already set); the limit is examined only there, once after each visit.
C4_StopAtPolicyEvalPastWallLimit ==
    [][(pc = "rc_policy" /\ pc' = "rc_after_policy") =>
          (stop_event' <=>
              (stop_event \/ \E m \in cfg.stop_after_minutes :
                                 now - run_start_time >= m))]_vars

C4_StoppedByWallClockWhilePaused ==
    /\ pc = "rc_after_policy"
    /\ stop_event
    /\ stop_at = now
    /\ \E m \in cfg.stop_after_minutes : now >= m /\ active_ticks < m

C6_ReturnsWithinSliceOfStop ==
    (pc # "returned" /\ stop_event) => now <= stop_at + PollInterval

C6_ReturnedEarlyOnStop ==
    /\ pc = "returned"
    /\ stop_event
    /\ stop_at > 0
    /\ now < in_a

\* C9 (as claimed): for N >= 1 and c >= 1, should_count_cycle(c, N) is true
\* exactly when c mod N = 1, and it is true for c = 1.
C9_TrueIffCountModNIsOne ==
    (out # None /\ in_b >= 1) =>
        /\ (out = Some(TRUE)) <=> (in_a % in_b = 1)
        /\ in_a = 1 => out = Some(TRUE)

\* C9 (amended): for N >= 1 and c >= 1, should_count_cycle(c, N) is true
\* exactly when c mod N = 1 mod N (c mod N = 1 for N >= 2, every c for
\* N = 1), and it is true for c = 1.
C9_TrueIffCountCongruentToOne ==
    (out # None /\ in_b >= 1) =>
        /\ (out = Some(TRUE)) <=> (in_a % in_b = 1 % in_b)
        /\ in_a = 1 => out = Some(TRUE)

C9_AppliedWithNOne ==
    /\ out = Some(TRUE)
    /\ in_b = 1
    /\ in_a = 4


\* C2: for every sequence of Start, Stop, hotkey and countdown-timer events
\* at most one worker thread is executing run_cycles at any time.
C2_AtMostOneWorkerInRunCycles ==
    Cardinality({t \in Threads : threads[t] = "run_cycles"}) <= 1

\* C11: a visits-per-threshold value of 0 or less is treated as 1 in every
\* variant of the engine: the rule returns (no division error) and it says
\* that the visit is a milestone, for every visit count.
C11_NonPositiveThresholdCountsEveryVisit ==
    (in_b <= 0 /\ pc \in {"returned", "raised"}) =>
        (pc = "returned" /\ out = Some(TRUE))

TargetHit == \E t \in cfg.target_cycles : Total >= t
StopTimeHit == \E m \in cfg.stop_after_minutes : now - run_start_time >= m
PauseCyclesHit == \E p \in cfg.pause_at_cycles : Total >= p
PauseTimeHit == \E m \in cfg.pause_after_minutes : now - run_start_time >= m

\* C12: one policy evaluation makes at most one flag transition, chosen by
\* the first condition that holds in the order target reached -> stop,
\* stop-after time reached -> stop, pause-at count reached -> pause,
\* pause-after time reached -> pause; when a stop condition and a pause
\* condition both hold, stop is set and the paused flag is left unchanged.
C12_FirstMatchingRuleOnly ==
    [][(pc = "rc_policy" /\ pc' = "rc_after_policy") =>
          /\ ~(stop_event' # stop_event /\ pause_event' # pause_event)
          /\ (TargetHit \/ StopTimeHit) =>
                (stop_event' /\ pause_event' = pause_event)
          /\ (~(TargetHit \/ StopTimeHit) /\ (PauseCyclesHit \/ PauseTimeHit)) =>
                (pause_event' /\ stop_event' = stop_event)
          /\ ~(TargetHit \/ StopTimeHit \/ PauseCyclesHit \/ PauseTimeHit) =>
                (stop_event' = stop_event /\ pause_event' = pause_event)]_vars

C12_StopChosenOverPause ==
    /\ pc = "rc_after_policy"
    /\ stop_event
    /\ stop_at = now
    /\ ~pause_event
    /\ (TargetHit \/ StopTimeHit)
    /\ (PauseCyclesHit \/ PauseTimeHit)

\* C13: a snapshot of the run counters taken by a controller thread under
\* runtime_lock never shows a visit in the total-visits counter while the
\* milestone that this visit produces is missing from the milestone counter:
\* the snapshot's milestone counter equals the milestones of the visits that
\* its visit counter includes.
C13_SnapshotHasMilestoneOfCountedVisit ==
    dash.cycles = dash.due

\* C14: Start invoked while a worker thread is alive is rejected and changes
\* nothing: the stop and pause flags, the run counters, the cooldown table
\* and the configuration of the active run, and with them the Start button
\* and the countdown overlays, are left as they were.
C14_StartWhileAliveChangesNothing ==
    [][(AppStart /\ \E t \in Threads : is_alive(t)) =>
          UNCHANGED <<stop_event, pause_event, runVars, overlays, btn_start>>]_vars

\* C15: while a worker thread is executing run_cycles the stop flag is
\* monotone: once it is true, no operation (Start, Resume, hotkey, policy)
\* resets it to false before that run has terminated.
C15_StopNotClearedDuringRun ==
    [][((\E t \in Threads : threads[t] = "run_cycles") /\ stop_event) =>
          stop_event']_vars

\* C16: requesting stop twice leaves the control flags in the same state as
\* requesting it once (stop set, paused as it was), and requesting pause
\* with App.pause twice leaves paused true, not toggled back to false.
C16_SecondRequestChangesNoFlag ==
    pc = "twice" =>
        /\ out = Some(<<stop_event, pause_event>>)
        /\ in_a \in {"App.stop", "ESC"} => stop_event
        /\ in_a = "App.pause" => pause_event

C16_PausedTwiceFromRunning ==
    /\ pc = "twice"
    /\ in_a = "App.pause"
    /\ pause_event
    /\ ~stop_event
    /\ out = Some(<<FALSE, TRUE>>)

\* C17: if stop is requested at any point of a run - during a cooldown
\* wait, a cadence wait, a pause or a visit - then under fair scheduling,
\* every click call returning, run_cycles eventually terminates, even if
\* paused stays true.  (Stop requested early enough for the slice in course
\* to end within the time the model covers.)
C17_StopLeadsToTermination ==
    (stop_event /\ stop_at + PollInterval <= MaxTime) ~> (pc = "done")

C17_TerminatedWhilePaused ==
    /\ pc = "done"
    /\ pause_event
    /\ stop_at > 0
    /\ nclicks >= 1
    /\ session_pause_time > 0

InvalidConfiguration(k) ==
    \/ k.rows <= 0
    \/ k.cols <= 0
    \/ k.cooldown_seconds < 0
    \/ k.click_delay < 0
    \/ k.between_positions_delay < 0

\* C18: a run configuration with zero or negative grid dimensions or a
\* negative duration is rejected at Start: no worker is started, no click
\* is performed and no run state is created.
C18_InvalidConfigurationNeverRuns ==
    InvalidConfiguration(cfg) =>
        /\ \A t \in Threads : threads[t] = "unborn"
        /\ nclicks = 0
        /\ run_start_time = NoTime

\* C19: if the click raises during a visit, that run performs no further
\* visit and does not retry the failed one, the stop flag is set, and once
\* the worker has ended a new Start is accepted (the Start button is enabled
\* and the worker thread is not alive).
C19_FaultStopsRun ==
    /\ [](pc = "raised" => stop_event)
    /\ [](pc = "raised" =>
            \A t \in Threads : threads[t] = "dead" =>
                (btn_start = "normal" /\ ~is_alive(worker_thread)))
    /\ [][pc = "raised" =>
            (nclicks' = nclicks /\ session_clicks' = session_clicks)]_vars

\* C20: the cumulative paused time recorded in the run counters equals the
\* total time the scheduling thread has spent blocked because of pause at
\* any wait point of the run - inside timed waits and inside the bare
\* wait_if_paused pre-checks - once the wait has returned and its caller has
\* taken its result; and the active time recorded at the end of a cycle is
\* the elapsed time minus all the time spent blocked.
C20_PauseTimeIsTimeBlocked ==
    /\ [](pc \notin {"wp_loop", "wp_sleep", "si_after_pause"} =>
            session_pause_time = blocked_ticks)
    /\ [][pc = "rc_cycle_end" =>
            session_active_time' = now - run_start_time - blocked_ticks]_vars

CooldownWritten ==
    ready_at' = [ready_at EXCEPT ![<<r, c>>] = now + cfg.cooldown_seconds]

C23_ConfigurationFixedDuringRun ==
    /\ pc # "done" => cfg = in_a
    /\ \A p \in DOMAIN ready_at :
           ready_at[p] > 0 => ready_at[p] >= in_a.cooldown_seconds

\* C24: when the policy has set paused because the pause-at milestone count
\* or the pause-after time is reached, the engine performs no further visit
\* until paused is cleared or stop is requested.  (In SpecAuto only the
\* policy sets pause_event, so every paused state is one the policy made.)
C24_NoVisitWhileAutoPaused ==
    /\ [][(pause_event /\ ~stop_event) =>
            (nclicks' = nclicks /\ session_clicks' = session_clicks)]_vars
    /\ [][(pause_event' /\ ~pause_event) =>
            (pc = "rc_policy" /\ (PauseCyclesHit \/ PauseTimeHit))]_vars

C24_BlockedAtThreshold ==
    /\ pc = "wp_sleep"
    /\ pause_event
    /\ ~stop_event
    /\ PauseCyclesHit \/ PauseTimeHit
    /\ blocked_ticks >= WaitStep
    /\ nclicks >= 1

\* C25: after the run has been paused by a pause threshold and resumed, the
\* same threshold does not pause the run again: a policy evaluation made
\* after time was spent blocked by the configuration's one pause threshold
\* leaves pause_event clear.
C25_ThresholdPausesOnce ==
    [][(/\ pc = "rc_policy"
        /\ pc' = "rc_after_policy"
        /\ ~pause_event
        /\ ~stop_event
        /\ blocked_ticks > 0
        /\ cfg.pause_at_cycles = None \/ cfg.pause_after_minutes = None)
       => ~pause_event']_vars

\* Row-major rank of a position, and the number of positions of the current
\* cycle whose visit has been counted.
Rank(p) == p[1] * Cols(cfg) + p[2]

VisitedInCycle ==
    r * Cols(cfg) + c + (IF pc \in {"rc_policy", "rc_after_policy"} THEN 1 ELSE 0)

\* C26: in every cycle that is not cut short by stop each position of the
\* rows x cols grid is visited exactly once, in row-major order: as long as
\* stop is not set there is a number k of completed cycles such that the
\* positions before the loop indices have k + 1 visits and all others k,
\* and every counted visit had its click.
C26_RowMajorOncePerCycle ==
    (~stop_event /\ pc # "rc_init") =>
        \E k \in 0 .. MaxVisits :
            /\ \A p \in Positions(cfg) :
                   per_position_clicks[p] =
                       k + (IF Rank(p) < VisitedInCycle THEN 1 ELSE 0)
            /\ session_clicks =
                   k * Cardinality(Positions(cfg)) + r * Cols(cfg) + c
                   + (IF pc \in {"rc_milestone", "rc_policy", "rc_after_policy"}
                      THEN 1 ELSE 0)
            /\ nclicks >= session_clicks

C26_SecondSweepSecondPosition ==
    /\ pc = "rc_policy"
    /\ ~stop_event
    /\ Cardinality(Positions(cfg)) = 2
    /\ Rank(<<r, c>>) = 1
    /\ per_position_clicks[<<r, c>>] = 2
    /\ per_position_clicks[<<0, 0>>] = 2

\* C27: unless stop is requested, a cycle does not start before the start
\* time of the previous cycle plus the cadence (next_start still holds that
\* deadline when the next cycle begins); and if the sweep took at least the
\* cadence, the engine goes back to the top of its loop without a cadence
\* wait.
C27_CadenceBetweenCycles ==
    /\ [][(pc = "rc_cycle" /\ pc' = "rc_for_c" /\ ~stop_event) =>
            now >= next_start]_vars
    /\ [][(pc = "rc_cycle_end" /\ pc' # pc /\ ~stop_event /\ now >= next_start) =>
            (pc' = "rc_while" /\ stack' = stack /\ wake' = wake)]_vars

C27_NextCycleOnDeadline ==
    /\ pc = "rc_cycle"
    /\ ~stop_event
    /\ session_clicks >= 1
    /\ cfg.cooldown_seconds > 0
    /\ now = next_start
    /\ session_pause_time = 0
    /\ ~pause_event

\* C28: wait_if_paused returns only in a state where paused is false or stop
\* is true, never while paused is true and stop is false; and when paused is
\* false at its first test it returns at once, without sleeping.
C28_WaitReturnsUnpausedOrStopped ==
    /\ [][(pc = "wp_loop" /\ pc' \notin {"wp_loop", "wp_sleep"}) =>
            (~pause_event \/ stop_event)]_vars
    /\ [][(pc = "wp_loop" /\ pc' # pc /\ ~pause_event) =>
            (pc' = Head(stack) /\ now' = now /\ wake' = 0)]_vars
    /\ [][(pc = "wp_loop" /\ pc' # pc /\ pause_event /\ ~stop_event) =>
            pc' = "wp_sleep"]_vars

C28_ReturnedOnStopWhilePaused ==
    /\ pc = "rc_ready"
    /\ pause_event
    /\ stop_event
    /\ stop_at = now
    /\ blocked_ticks >= WaitStep

\* C29: at the beginning of every run the engine state is fresh: when
\* run_cycles has finished its initialisation the total visits, milestones,
\* paused time and active time are 0, every per-position visit count is 0
\* and every position is ready immediately, whatever an earlier run in the
\* same process left behind.
C29_FreshStateAtRunStart ==
    [][(pc = "rc_init" /\ pc' = "rc_while") =>
          /\ session_clicks' = 0
          /\ session_cycles_added' = 0
          /\ session_pause_time' = 0
          /\ session_active_time' = 0
          /\ run_start_time' = now'
          /\ DOMAIN per_position_clicks' = Positions(cfg')
          /\ DOMAIN ready_at' = Positions(cfg')
          /\ \A p \in Positions(cfg') :
                 per_position_clicks'[p] = 0 /\ ready_at'[p] <= now']_vars

C29_SecondRunStartsFresh ==
    /\ pc = "rc_while"
    /\ \E t \in Threads : threads[t] = "dead"
    /\ \E t \in Threads : threads[t] = "run_cycles"
    /\ nclicks >= 1
    /\ last_session.clicks >= 1
    /\ session_clicks = 0
    /\ run_start_time = now

\* C30: for every position the value of ready_at never decreases over the
\* course of a run: each cooldown update writes a value greater than or
\* equal to the one it replaces.
C30_ReadyAtNeverDecreases ==
    [][pc # "rc_init" =>
          \A p \in DOMAIN ready_at : ready_at'[p] >= ready_at[p]]_vars

\* C31: if paused becomes true at some point of a run and stays true while
\* stop is never requested, the engine performs at most one further click
\* and counts at most one further visit, and once it is blocked in
\* wait_if_paused it performs no click and counts no visit.
C31_AtMostOneClickAfterPause ==
    /\ []((in_a = 1 /\ ~stop_event) =>
            /\ nclicks <= in_b + 1
            /\ \A s \in out : session_clicks <= s + 1)
    /\ [][(in_a = 1 /\ ~stop_event /\ pc \in {"wp_loop", "wp_sleep"}) =>
            (nclicks' = nclicks /\ session_clicks' = session_clicks
             /\ pc' \in {"wp_loop", "wp_sleep"})]_vars

C31_OneMoreClickThenBlocked ==
    /\ in_a = 1
    /\ pause_event
    /\ ~stop_event
    /\ pc = "wp_sleep"
    /\ nclicks = in_b + 1
    /\ out = Some(session_clicks - 1)

StartedAtOrAboveTarget == \E t \in cfg.target_cycles : cfg.start_cycles_done >= t

\* C32: the policy is evaluated only after a visit, never before the first
\* one: when a run starts with the starting milestone count already at or
\* above the target, stop is set by the policy evaluation that follows the
\* first visit and not earlier, and the run ends with exactly one visit,
\* made to the first position.
C32_OneVisitWhenStartedAtTarget ==
    /\ [][(stop_event' /\ ~stop_event) =>
            (pc = "rc_policy" /\ session_clicks >= 1 /\ nclicks >= 1)]_vars
    /\ [](StartedAtOrAboveTarget =>
            /\ session_clicks <= 1
            /\ pc = "rc_after_policy" => stop_event
            /\ pc = "done" =>
                  /\ session_clicks = 1
                  /\ visits_completed = 1
                  /\ nclicks = (IF cfg.always_second_click THEN 2 ELSE 1)
                  /\ \A p \in Positions(cfg) :
                         per_position_clicks[p] = (IF p = <<0, 0>> THEN 1 ELSE 0))

C32_StoppedAfterFirstVisit ==
    /\ pc = "done"
    /\ StartedAtOrAboveTarget
    /\ stop_event
    /\ session_clicks = 1
    /\ per_position_clicks[<<0, 0>>] = 1
    /\ session_pause_time > 0

\* C33: at every point of a run, for any two positions p before q in
\* row-major order, count[p] - count[q] is 0 or 1: the per-position visit
\* counts differ by at most one and an earlier position is never behind a
\* later one, also after stop has been requested.
C33_CountsDifferByAtMostOne ==
    \A p \in DOMAIN per_position_clicks :
        \A q \in DOMAIN per_position_clicks :
            Rank(p) < Rank(q) =>
                per_position_clicks[p] - per_position_clicks[q] \in {0, 1}

C33_StoppedBetweenPositions ==
    /\ pc = "done"
    /\ stop_event
    /\ Cardinality(DOMAIN per_position_clicks) = 2
    /\ \E q \in DOMAIN per_position_clicks :
           /\ Rank(q) = 1
           /\ per_position_clicks[q] = 1
           /\ per_position_clicks[<<0, 0>>] = 2

\* The scheduling thread is outside the sweep loop of run_cycles.
SweepNotEntered == pc \in {"idle", "rc_init", "rc_while", "rc_exit", "done"}

\* C34: if stop is requested during the pre-start countdown and Start is not
\* invoked again, no click is ever performed for that start.  During the
\* countdown no click has been made and the sweep loop is not entered; from
\* a state with stop set, no click made and the loop not entered, every
\* step leads to such a state again; and in v1 a stop set while no worker
\* exists leaves it so.
C34_NoClickAfterStopInCountdown ==
    /\ [](CountingDown => (pc = "idle" /\ nclicks = 0))
    /\ [][(stop_event /\ SweepNotEntered /\ nclicks = 0) =>
            (stop_event' /\ SweepNotEntered' /\ nclicks' = 0)]_vars
    /\ [][(in_a = "v1" /\ stop_event /\ \A t \in Threads : threads[t] = "unborn") =>
            (\A t \in Threads : threads'[t] = "unborn")]_vars

C34_WorkerRanWithoutSweep ==
    /\ in_a = "v2"
    /\ \E o \in Overlays : overlays[o].state = "completed"
    /\ \E t \in Threads : threads[t] = "dead"
    /\ stop_event
    /\ run_start_time # NoTime
    /\ nclicks = 0
    /\ session_clicks = 0
    /\ pc = "idle"

\* The longest a visit takes, the longest a position waits for its next
\* visit in a run that is not paused, and what a pause still to come or in
\* course can add to it.
VisitSpan(k) ==
    (IF k.always_second_click THEN k.click_delay + k.click_delay_jitter ELSE 0)
    + Max(0, k.between_positions_delay + k.between_positions_jitter)

RevisitSpan(k) == k.cooldown_seconds + Cardinality(Positions(k)) * VisitSpan(k)

PauseAllowance ==
    IF in_a = "resumed" /\ pc \notin {"wp_loop", "wp_sleep"}
    THEN 0
    ELSE MaxHold + WaitStep

AllPositions == (0 .. 1) \X (0 .. 1)

\* C35: in a run where stop is never requested, no limit is configured and
\* every pause is followed by a resume, no position is starved: under fair
\* scheduling, every click call returning, a position that has been visited
\* k times is visited again, for every k, unless stop is requested.
\* (Within the model: as long as the time and the visits the model covers
\* leave room for one more sweep.)
C35_EveryPositionVisitedAgain ==
    \A p \in AllPositions : \A k \in 0 .. (MaxVisits - 1) :
        (/\ p \in DOMAIN per_position_clicks
         /\ per_position_clicks[p] = k
         /\ session_clicks + Cardinality(Positions(cfg)) <= MaxVisits
         /\ now + RevisitSpan(cfg) + PauseAllowance <= MaxTime)
        ~> \/ stop_event
           \/ (p \in DOMAIN per_position_clicks /\ per_position_clicks[p] > k)

C35_RevisitedAfterResume ==
    /\ in_a = "resumed"
    /\ ~pause_event
    /\ ~stop_event
    /\ blocked_ticks >= MaxHold
    /\ \A p \in DOMAIN per_position_clicks : per_position_clicks[p] >= 2

====
